---------------------------- MODULE Spec2Model ----------------------------
(***************************************************************************)
(* A model of the Battleship engine of src/script.js: the board model,     *)
(* ship placement (canPlaceShip, placeShip, placeAllShipsRandomly, the     *)
(* drag-and-drop handlers), attack resolution (resolveAttack,              *)
(* checkShipSunk, checkAllSunk), the opponent's hunt/target memory and the *)
(* turn/phase handlers.                                                    *)
(*                                                                         *)
(* The board is scaled down: BOARD_SIZE and the ship catalog SHIP_DEFS are *)
(* smaller than the program's 10 x 10 board and 5-ship catalog, which no   *)
(* exhaustive search covers.  Nothing in the modelled code depends on the  *)
(* particular size or catalog.                                             *)
(*                                                                         *)
(* A grid cell is a pair <<row, col>>, zero-based as in the code.  A board *)
(* is a function from the in-bounds cells to a cell state.  A ship is a    *)
(* record [id, length, cells, sunk, isHorizontal], cells being the         *)
(* sequence placeShip builds.  A fleet is a sequence of ships, in the      *)
(* order of the code's array.                                              *)
(***************************************************************************)
EXTENDS Integers, Sequences, FiniteSets, TLC

\* ----------------------------------------------------- scaled constants

\* Side of the square board; the program's BOARD_SIZE is 10.
BOARD_SIZE == 3

\* Ship lengths by id (id = index - 1); the program's catalog is 5,4,3,3,2.
SHIP_DEFS == <<3, 2>>

\* ------------------------------------------------------------------ bounds

\* Free calls of resolveAttack made on one grid in SpecAttack.
MaxCalls == 5

\* Player attacks accepted in one game.
MaxAttacks == 2

\* Placement events (drag starts, rotations, Randomize) handled in one game.
MaxSetupOps == 3

\* Restarts.
MaxRestarts == 1

\* Length of the confirmed-hits lists getDirectionalCandidates is tried on.
MaxHits == 3

\* ------------------------------------------------------------- constants

\* Per-ship cap of random placement attempts in placeAllShipsRandomly.
maxAttempts == 200

\* CELL_STATES
EMPTY == "empty"
SHIP == "ship"
HIT == "hit"
MISS == "miss"

\* PHASES
SETUP == "setup"
PLAYING == "playing"
GAME_OVER == "gameover"

\* JavaScript's null, for a ship index or a ship id.
NoShip == 0 - 1

Rows == 0 .. (BOARD_SIZE - 1)
Coords == Rows \X Rows

VARIABLES
  phase,          \* gameState.phase
  currentTurn,    \* gameState.currentTurn: "player" | "ai"
  isGameStarted,  \* gameState.isGameStarted
  playerBoard,    \* gameState.playerBoard
  enemyBoard,     \* gameState.enemyBoard
  playerShips,    \* gameState.playerShips
  enemyShips,     \* gameState.enemyShips
  moveLog,        \* gameState.moveLog, by its number of entries
  aiMemory,       \* gameState.aiMemory
  dragState,      \* the module-level dragState
  aiTimers,       \* pending setTimeout callbacks of aiTurn, oldest first
  overlay,        \* the game-over overlay: "hidden" | "win" | "lose"
  lastCall,       \* observer: the most recent call made by a Call action
  calls,          \* observer: number of Call actions taken
  sunkReports,    \* observer: ship id -> calls that returned it as sunkShip
  everHit,        \* observer: cells for which a call returned "hit"
  used            \* observer: what the bounds count (see NoneUsed)

vars == <<phase, currentTurn, isGameStarted, playerBoard, enemyBoard,
          playerShips, enemyShips, moveLog, aiMemory, dragState, aiTimers,
          overlay, lastCall, calls, sunkReports, everHit, used>>

obsVars == <<lastCall, calls, sunkReports, everHit>>

gameVars == <<phase, currentTurn, isGameStarted, playerBoard, enemyBoard,
              playerShips, enemyShips, moveLog, aiMemory>>

\* ------------------------------------------------------------ game state

createEmptyBoard(size) ==
  [cell \in (0 .. (size - 1)) \X (0 .. (size - 1)) |-> EMPTY]

\* The aiMemory object of createGameState.  lastMove null is row = NoShip.
NoMove == [row |-> NoShip, col |-> NoShip, result |-> "none"]

InitialAiMemory ==
  [mode |-> "hunt", candidateTargets |-> <<>>, confirmedHits |-> <<>>,
   lastMove |-> NoMove]

\* The initial value of dragState.  The code leaves shipId, shipLength,
\* grabOffset and isHorizontal stale when a drag ends; every read of them is
\* behind a test of dragState.active, so an inactive dragState is kept in
\* this one form.  sourceShip null is <<>>, a snapshot is <<ship>>.
NoDrag ==
  [active |-> FALSE, shipId |-> NoShip, shipLength |-> 0, grabOffset |-> 0,
   isHorizontal |-> TRUE, sourceShip |-> <<>>]

\* ------------------------------------------------------------- placement

\* The cell of a ship's i-th segment (i from 0), as canPlaceShip and
\* placeShip compute r and c.
SegmentCell(startRow, startCol, isHorizontal, i) ==
  <<IF isHorizontal THEN startRow ELSE startRow + i,
    IF isHorizontal THEN startCol + i ELSE startCol>>

\* canPlaceShip's loop from segment i on.  "true" and "false" are the
\* returned boolean.  "TypeError" is the exception of board[r][c] when r is
\* negative: board[r] is undefined there.  For r in range and c negative,
\* board[r][c] is undefined, which differs from EMPTY.
RECURSIVE canPlaceShipFrom(_, _, _, _, _, _)
canPlaceShipFrom(board, length, startRow, startCol, isHorizontal, i) ==
  IF i >= length THEN "true"
  ELSE LET cell == SegmentCell(startRow, startCol, isHorizontal, i)
           r == cell[1]
           c == cell[2]
       IN IF r >= BOARD_SIZE \/ c >= BOARD_SIZE THEN "false"
          ELSE IF r < 0 THEN "TypeError"
          ELSE IF c < 0 THEN "false"
          ELSE IF board[cell] # EMPTY THEN "false"
          ELSE canPlaceShipFrom(board, length, startRow, startCol,
                                isHorizontal, i + 1)

canPlaceShip(board, length, startRow, startCol, isHorizontal) ==
  canPlaceShipFrom(board, length, startRow, startCol, isHorizontal, 0)

\* placeShip with the loop started one cell late: the cells run from the
\* cell after the start, so the last one can leave the board.
placeShipFromNextCell(board, length, startRow, startCol, isHorizontal, id) ==
  LET cells == [k \in 1 .. length |->
                  SegmentCell(startRow, startCol, isHorizontal, k)]
      marked == {cells[k] : k \in 1 .. length}
  IN [board |-> [x \in DOMAIN board |-> IF x \in marked THEN SHIP ELSE board[x]],
      ship |-> [id |-> id, length |-> length, cells |-> cells,
                sunk |-> FALSE, isHorizontal |-> isHorizontal]]

\* placeShip: the cells in loop order, each marked SHIP.  The id is set by
\* the caller right after the call; it is passed here to build one record.
placeShip(board, length, startRow, startCol, isHorizontal, id) ==
  LET cells == [k \in 1 .. length |->
                  SegmentCell(startRow, startCol, isHorizontal, k - 1)]
      marked == {cells[k] : k \in 1 .. length}
  IN [board |-> [x \in DOMAIN board |-> IF x \in marked THEN SHIP ELSE board[x]],
      ship |-> [id |-> id, length |-> length, cells |-> cells,
                sunk |-> FALSE, isHorizontal |-> isHorizontal]]

\* removeShipFromBoard with the loop started at the second cell: the first
\* cell of the ship stays marked.
removeShipFromBoardAfterFirstCell(board, ship) ==
  LET cleared == {ship.cells[k] : k \in 2 .. Len(ship.cells)}
  IN [x \in DOMAIN board |-> IF x \in cleared THEN EMPTY ELSE board[x]]

removeShipFromBoard(board, ship) ==
  LET cleared == {ship.cells[k] : k \in 1 .. Len(ship.cells)}
  IN [x \in DOMAIN board |-> IF x \in cleared THEN EMPTY ELSE board[x]]

\* What Math.random can give one attempt: an orientation, a row, a column.
RandomSamples == BOOLEAN \X Rows \X Rows

\* placeAllShipsRandomly from ship i on: the set of results [board, ships]
\* over all sequences of random samples.  A ship is placed at any sample
\* canPlaceShip accepts; it is left out, with only a console.error, when all
\* maxAttempts samples are refused, which some sequence of samples does as
\* soon as one sample is refused.
RECURSIVE placeAllShipsRandomlyFrom(_, _, _)
placeAllShipsRandomlyFrom(board, ships, i) ==
  IF i >= Len(SHIP_DEFS) THEN {[board |-> board, ships |-> ships]}
  ELSE LET shipLength == SHIP_DEFS[i + 1]
           accepted == {s \in RandomSamples :
                          canPlaceShip(board, shipLength, s[2], s[3], s[1]) = "true"}
           placed == IF maxAttempts > 0 THEN accepted ELSE {}
           canFail == maxAttempts = 0 \/ accepted # RandomSamples
       IN UNION {LET p == placeShip(board, shipLength, s[2], s[3], s[1], i)
                 IN placeAllShipsRandomlyFrom(p.board, Append(ships, p.ship), i + 1)
                 : s \in placed}
          \cup (IF canFail
                THEN placeAllShipsRandomlyFrom(board, ships, i + 1)
                ELSE {})

placeAllShipsRandomly(board) == placeAllShipsRandomlyFrom(board, <<>>, 0)

\* The results of placeAllShipsRandomly on a fresh board, which is how
\* handleRandomize and handleStartGame call it.
RandomFleets == placeAllShipsRandomly(createEmptyBoard(BOARD_SIZE))

\* ----------------------------------------------------- attack resolution

\* ships.find / findIndex by cell: the first ship holding the cell, as an
\* index into the fleet, or NoShip.
FindShip(ships, cell) ==
  LET holding == {i \in 1 .. Len(ships) :
                    \E k \in 1 .. Len(ships[i].cells) : ships[i].cells[k] = cell}
  IN IF holding = {} THEN NoShip
     ELSE CHOOSE i \in holding : \A j \in holding : i <= j

\* checkShipSunk: the returned boolean and the ship as the call leaves it.
checkShipSunk(board, ship) ==
  IF ship.sunk THEN [ret |-> TRUE, ship |-> ship]
  ELSE LET isSunk == \A k \in 1 .. Len(ship.cells) : board[ship.cells[k]] = HIT
       IN [ret |-> isSunk, ship |-> [ship EXCEPT !.sunk = isSunk]]

\* ships.every(s => s.sunk), as a loop over the array.
RECURSIVE everySunkFrom(_, _)
everySunkFrom(ships, i) ==
  IF i > Len(ships) THEN TRUE
  ELSE IF ~ships[i].sunk THEN FALSE
  ELSE everySunkFrom(ships, i + 1)

\* checkAllSunk without the length test, true of the empty fleet.
checkAllSunkVacuous(ships) == everySunkFrom(ships, 1)

checkAllSunk(ships) == Len(ships) > 0 /\ everySunkFrom(ships, 1)

\* resolveAttack without the call to checkShipSunk: the cell is marked,
\* no ship is ever flagged or returned as sunk.
resolveAttackNoSunkCheck(board, ships, row, col) ==
  IF board[<<row, col>>] = SHIP
  THEN [board |-> [board EXCEPT ![<<row, col>>] = HIT],
        ships |-> ships,
        result |-> "hit",
        sunkShip |-> NoShip]
  ELSE [board |-> [board EXCEPT ![<<row, col>>] = MISS],
        ships |-> ships,
        result |-> "miss",
        sunkShip |-> NoShip]

\* resolveAttack: the board and the fleet as the call leaves them, the
\* result and the index of sunkShip in the fleet (NoShip for null).
resolveAttack(board, ships, row, col) ==
  IF board[<<row, col>>] = SHIP
  THEN LET hitBoard == [board EXCEPT ![<<row, col>>] = HIT]
           hitShip == FindShip(ships, <<row, col>>)
           checked == IF hitShip = NoShip
                      THEN [ret |-> FALSE]
                      ELSE checkShipSunk(hitBoard, ships[hitShip])
       IN [board |-> hitBoard,
           ships |-> IF hitShip = NoShip THEN ships
                     ELSE [ships EXCEPT ![hitShip] = checked.ship],
           result |-> "hit",
           sunkShip |-> IF checked.ret THEN hitShip ELSE NoShip]
  ELSE [board |-> [board EXCEPT ![<<row, col>>] = MISS],
        ships |-> ships,
        result |-> "miss",
        sunkShip |-> NoShip]

\* ------------------------------------------------- opponent targeting

\* JavaScript's null for the cell chooseAiMove returns.
NoTarget == <<NoShip, NoShip>>

\* isValidAiTarget, on the player board handed in.
isValidAiTarget(board, row, col) ==
  IF row < 0 \/ row >= BOARD_SIZE \/ col < 0 \/ col >= BOARD_SIZE THEN FALSE
  ELSE board[<<row, col>>] # HIT /\ board[<<row, col>>] # MISS

\* Array.filter with isValidAiTarget.
ValidTargets(board, cells) ==
  LET valid(cell) == isValidAiTarget(board, cell[1], cell[2])
  IN SelectSeq(cells, valid)

getValidAdjacentCells(board, row, col) ==
  ValidTargets(board, <<<<row - 1, col>>, <<row + 1, col>>,
                        <<row, col - 1>>, <<row, col + 1>>>>)

\* [...confirmedHits].sort by column (horizontal) or row: a stable sort.
SortKey(cell, isHorizontal) == IF isHorizontal THEN cell[2] ELSE cell[1]

RECURSIVE SortHits(_, _)
SortHits(hits, isHorizontal) ==
  IF hits = <<>> THEN <<>>
  ELSE LET n == Len(hits)
           front == SortHits(SubSeq(hits, 1, n - 1), isHorizontal)
           k == Cardinality({j \in 1 .. (n - 1) :
                               SortKey(front[j], isHorizontal)
                                 <= SortKey(hits[n], isHorizontal)})
       IN SubSeq(front, 1, k) \o <<hits[n]>> \o SubSeq(front, k + 1, n - 1)

\* getDirectionalCandidates without the sort: the line is taken to run
\* from the first confirmed hit to the last.
getDirectionalCandidatesUnsorted(board, confirmedHits) ==
  IF Len(confirmedHits) < 2 THEN <<>>
  ELSE LET isHorizontal == confirmedHits[1][1] = confirmedHits[2][1]
           first == confirmedHits[1]
           last == confirmedHits[Len(confirmedHits)]
           candidates == IF isHorizontal
                         THEN <<<<first[1], first[2] - 1>>, <<last[1], last[2] + 1>>>>
                         ELSE <<<<first[1] - 1, first[2]>>, <<last[1] + 1, last[2]>>>>
       IN ValidTargets(board, candidates)

getDirectionalCandidates(board, confirmedHits) ==
  IF Len(confirmedHits) < 2 THEN <<>>
  ELSE LET isHorizontal == confirmedHits[1][1] = confirmedHits[2][1]
           sorted == SortHits(confirmedHits, isHorizontal)
           first == sorted[1]
           last == sorted[Len(sorted)]
           candidates == IF isHorizontal
                         THEN <<<<first[1], first[2] - 1>>, <<last[1], last[2] + 1>>>>
                         ELSE <<<<first[1] - 1, first[2]>>, <<last[1] + 1, last[2]>>>>
       IN ValidTargets(board, candidates)

\* The while loop of chooseAiMove: shift entries off the queue up to the
\* first valid one.
RECURSIVE drainCandidates(_, _)
drainCandidates(board, queue) ==
  IF queue = <<>> THEN [target |-> NoTarget, queue |-> <<>>]
  ELSE IF isValidAiTarget(board, Head(queue)[1], Head(queue)[2])
       THEN [target |-> Head(queue), queue |-> Tail(queue)]
       ELSE drainCandidates(board, Tail(queue))

\* The hunt branch of chooseAiMove: any untargeted cell (Math.random), or
\* null when there is none.
huntMoves(board, mem) ==
  LET available == {cell \in Coords : isValidAiTarget(board, cell[1], cell[2])}
  IN IF available = {} THEN {[target |-> NoTarget, mem |-> mem]}
     ELSE {[target |-> cell, mem |-> mem] : cell \in available}

\* chooseAiMove trying the candidate queue before the directional
\* candidates.
chooseAiMoveQueueFirst(board, mem) ==
  IF mem.mode = "target"
  THEN LET directional == IF Len(mem.confirmedHits) >= 2
                          THEN getDirectionalCandidates(board, mem.confirmedHits)
                          ELSE <<>>
           drained == drainCandidates(board, mem.candidateTargets)
       IN IF drained.target # NoTarget
          THEN {[target |-> drained.target,
                 mem |-> [mem EXCEPT !.candidateTargets = drained.queue]]}
          ELSE IF directional # <<>>
          THEN {[target |-> directional[1],
                 mem |-> [mem EXCEPT !.candidateTargets = <<>>]]}
          ELSE huntMoves(board, [mem EXCEPT !.candidateTargets = <<>>,
                                            !.mode = "hunt"])
  ELSE huntMoves(board, mem)

\* chooseAiMove: the possible results, each with the memory as the call
\* leaves it.
chooseAiMove(board, mem) ==
  IF mem.mode = "target"
  THEN LET directional == IF Len(mem.confirmedHits) >= 2
                          THEN getDirectionalCandidates(board, mem.confirmedHits)
                          ELSE <<>>
           drained == drainCandidates(board, mem.candidateTargets)
       IN IF directional # <<>>
          THEN {[target |-> directional[1], mem |-> mem]}
          ELSE IF drained.target # NoTarget
          THEN {[target |-> drained.target,
                 mem |-> [mem EXCEPT !.candidateTargets = drained.queue]]}
          ELSE huntMoves(board, [mem EXCEPT !.candidateTargets = <<>>,
                                            !.mode = "hunt"])
  ELSE huntMoves(board, mem)

\* The loop of updateAiTargetingState without its alreadyQueued test.
enqueueAdjacentsWithDuplicates(queue, adjacents) == queue \o adjacents

\* The loop of updateAiTargetingState that queues the adjacent cells not
\* queued already.
RECURSIVE enqueueAdjacents(_, _)
enqueueAdjacents(queue, adjacents) ==
  IF adjacents = <<>> THEN queue
  ELSE LET adj == Head(adjacents)
           alreadyQueued == \E k \in 1 .. Len(queue) : queue[k] = adj
       IN enqueueAdjacents(IF alreadyQueued THEN queue ELSE Append(queue, adj),
                           Tail(adjacents))

\* resetAiTargeting.
resetAiTargeting(mem) ==
  [mem EXCEPT !.mode = "hunt", !.candidateTargets = <<>>,
              !.confirmedHits = <<>>, !.lastMove = NoMove]

\* updateAiTargetingState without the call of resetAiTargeting on a sunk
\* ship.
updateAiTargetingStateNoReset(board, mem, row, col, result, sunkShip) ==
  LET moved == [mem EXCEPT !.lastMove = [row |-> row, col |-> col, result |-> result]]
  IN IF result = "hit"
     THEN [moved EXCEPT
             !.confirmedHits = Append(@, <<row, col>>),
             !.mode = "target",
             !.candidateTargets =
               enqueueAdjacents(@, getValidAdjacentCells(board, row, col))]
     ELSE moved

\* updateAiTargetingState, board being the player board after the attack.
updateAiTargetingState(board, mem, row, col, result, sunkShip) ==
  LET moved == [mem EXCEPT !.lastMove = [row |-> row, col |-> col, result |-> result]]
      afterHit == IF result = "hit"
                  THEN [moved EXCEPT
                          !.confirmedHits = Append(@, <<row, col>>),
                          !.mode = "target",
                          !.candidateTargets =
                            enqueueAdjacents(@, getValidAdjacentCells(board, row, col))]
                  ELSE moved
  IN IF sunkShip # NoShip THEN resetAiTargeting(afterHit) ELSE afterHit

\* ------------------------------------------------------------- observers

\* lastCall before any call.
NoCall ==
  [fn |-> "none", length |-> 0, row |-> 0, col |-> 0, isHorizontal |-> TRUE,
   before |-> "none", result |-> "none", sunkShip |-> NoShip, ships |-> 0]

\* restarts: games replaced by handleRestart so far, which also names the
\* current game; attacks: player attacks accepted in the current game;
\* setupOps: placement events handled in the current game; aiAttacks:
\* opponent attacks resolved in the current game; aiCells: the cells they
\* were resolved on.
NoneUsed ==
  [restarts |-> 0, attacks |-> 0, setupOps |-> 0, aiAttacks |-> 0, aiCells |-> {}]

ObserverInit ==
  /\ used = NoneUsed
  /\ lastCall = NoCall
  /\ calls = 0
  /\ sunkReports = [i \in 1 .. Len(SHIP_DEFS) |-> 0]
  /\ everHit = {}

\* The gameState of createGameState, with no drag and no timer pending.
GameInit ==
  /\ phase = SETUP
  /\ currentTurn = "player"
  /\ isGameStarted = FALSE
  /\ playerBoard = createEmptyBoard(BOARD_SIZE)
  /\ enemyBoard = createEmptyBoard(BOARD_SIZE)
  /\ playerShips = <<>>
  /\ enemyShips = <<>>
  /\ moveLog = 0
  /\ aiMemory = InitialAiMemory
  /\ dragState = NoDrag
  /\ aiTimers = <<>>
  /\ overlay = "hidden"

CellSet(ship) == {ship.cells[k] : k \in 1 .. Len(ship.cells)}

\* ---------------------------------------------- SpecAttack: resolveAttack
\* resolveAttack and checkAllSunk called on one grid and its fleet, here
\* enemyBoard and enemyShips, at any coordinate and any number of times on
\* the same one.  The grid and fleet are those placeAllShipsRandomly builds
\* on an empty board.

InitAttack ==
  /\ phase = SETUP
  /\ currentTurn = "player"
  /\ isGameStarted = FALSE
  /\ playerBoard = createEmptyBoard(BOARD_SIZE)
  /\ playerShips = <<>>
  /\ moveLog = 0
  /\ aiMemory = InitialAiMemory
  /\ dragState = NoDrag
  /\ aiTimers = <<>>
  /\ overlay = "hidden"
  /\ \E placed \in RandomFleets :
       /\ enemyBoard = placed.board
       /\ enemyShips = placed.ships
  /\ ObserverInit

CallResolveAttack(row, col) ==
  /\ calls < MaxCalls
  /\ LET res == resolveAttack(enemyBoard, enemyShips, row, col)
     IN /\ enemyBoard' = res.board
        /\ enemyShips' = res.ships
        /\ lastCall' = [NoCall EXCEPT !.fn = "resolveAttack",
                                      !.row = row, !.col = col,
                                      !.before = enemyBoard[<<row, col>>],
                                      !.result = res.result,
                                      !.sunkShip = res.sunkShip]
        /\ sunkReports' = IF res.sunkShip = NoShip THEN sunkReports
                          ELSE [sunkReports EXCEPT ![res.sunkShip] = @ + 1]
        /\ everHit' = IF res.result = "hit" THEN everHit \cup {<<row, col>>}
                      ELSE everHit
  /\ calls' = calls + 1
  /\ UNCHANGED <<phase, currentTurn, isGameStarted, playerBoard, playerShips,
                 moveLog, aiMemory, dragState, aiTimers, used>>
  /\ UNCHANGED overlay

NextAttack == \E row \in Rows, col \in Rows : CallResolveAttack(row, col)

SpecAttack == InitAttack /\ [][NextAttack]_vars

\* C1 (as claimed): resolveAttack on a cell that is already Hit or Miss
\* returns AlreadyAttacked with sunkShip null and leaves the cell as it was
\* (a Hit cell stays Hit and is not rewritten to Miss).
C1_AlreadyAttackedNoMutation ==
  (lastCall.fn = "resolveAttack" /\ lastCall.before \in {HIT, MISS})
    => /\ lastCall.result = "AlreadyAttacked"
       /\ lastCall.sunkShip = NoShip
       /\ enemyBoard[<<lastCall.row, lastCall.col>>] = lastCall.before

\* C2: resolveAttack on a not yet attacked cell changes that cell and no
\* other; a ShipPresent cell becomes Hit with result hit, an Empty cell
\* becomes Miss with result miss and sunkShip null; on a hit sunkShip is the
\* ship owning the cell exactly when all of that ship's cells are now Hit
\* (and then its sunk flag is set), otherwise null; no other ship changes.
C2_FreshAttack ==
  [][(lastCall'.fn = "resolveAttack" /\ calls' = calls + 1
      /\ lastCall'.before \in {SHIP, EMPTY})
     => LET cell == <<lastCall'.row, lastCall'.col>>
            owners == {i \in 1 .. Len(enemyShips) : cell \in CellSet(enemyShips[i])}
        IN /\ enemyBoard[cell] = lastCall'.before
           /\ \A x \in Coords \ {cell} : enemyBoard'[x] = enemyBoard[x]
           /\ Len(enemyShips') = Len(enemyShips)
           /\ \A i \in (1 .. Len(enemyShips)) \ owners : enemyShips'[i] = enemyShips[i]
           /\ lastCall'.before = EMPTY
                => /\ enemyBoard'[cell] = MISS
                   /\ lastCall'.result = "miss"
                   /\ lastCall'.sunkShip = NoShip
                   /\ enemyShips' = enemyShips
           /\ lastCall'.before = SHIP
                => /\ enemyBoard'[cell] = HIT
                   /\ lastCall'.result = "hit"
                   /\ Cardinality(owners) = 1
                   /\ \A i \in owners :
                        LET allHit == \A x \in CellSet(enemyShips[i]) : enemyBoard'[x] = HIT
                        IN /\ lastCall'.sunkShip = (IF allHit THEN i ELSE NoShip)
                           /\ enemyShips'[i] = [enemyShips[i] EXCEPT !.sunk = allHit]]_vars

\* C2's case: a call on a ShipPresent cell that sank the ship.
C2_Witness ==
  /\ lastCall.fn = "resolveAttack"
  /\ lastCall.before = SHIP
  /\ lastCall.sunkShip # NoShip

\* C3 (as claimed): over any sequence of resolveAttack calls on a grid,
\* repeated coordinates included, a ship is returned as sunkShip by at most
\* one call, and by exactly one once every one of its cells has been hit.
C3_SunkFiresOnce ==
  \A i \in 1 .. Len(enemyShips) :
    /\ sunkReports[i] <= 1
    /\ CellSet(enemyShips[i]) \subseteq everHit => sunkReports[i] = 1

\* C4: checkAllSunk is true exactly for a non-empty fleet all of whose
\* ships have sunk = true.
C4_CheckAllSunk ==
  checkAllSunk(enemyShips)
    = (enemyShips # <<>> /\ \A i \in 1 .. Len(enemyShips) : enemyShips[i].sunk)

\* C4's case: a whole fleet sunk, where checkAllSunk is true.
C4_Witness ==
  /\ Len(enemyShips) = Len(SHIP_DEFS)
  /\ \A i \in 1 .. Len(enemyShips) : enemyShips[i].sunk
  /\ checkAllSunk(enemyShips)

\* ------------------------------------- SpecPlace: placement functions
\* canPlaceShip called with any catalog length, any orientation and any
\* start from a whole ship length before the board to one cell past it (a
\* drop computes the start as the drop cell minus the grab offset), on the
\* boards placeAllShipsRandomly builds; and placeAllShipsRandomly called on
\* a fresh board, as handleRandomize and handleStartGame call it.

MaxLength == CHOOSE n \in {SHIP_DEFS[i] : i \in 1 .. Len(SHIP_DEFS)} :
               \A i \in 1 .. Len(SHIP_DEFS) : SHIP_DEFS[i] <= n

ArgCoords == (1 - MaxLength) .. BOARD_SIZE

InitPlace == GameInit /\ ObserverInit

CallPlaceAllShipsRandomly ==
  /\ \E placed \in RandomFleets :
       /\ enemyBoard' = placed.board
       /\ enemyShips' = placed.ships
       /\ lastCall' = [NoCall EXCEPT !.fn = "placeAllShipsRandomly",
                                     !.ships = Len(placed.ships)]
  /\ UNCHANGED <<phase, currentTurn, isGameStarted, playerBoard, playerShips,
                 moveLog, aiMemory, dragState, aiTimers, calls, sunkReports,
                 everHit, used>>
  /\ UNCHANGED overlay

CallCanPlaceShip(length, startRow, startCol, isHorizontal) ==
  /\ lastCall' = [NoCall EXCEPT !.fn = "canPlaceShip",
                                !.length = length,
                                !.row = startRow, !.col = startCol,
                                !.isHorizontal = isHorizontal,
                                !.result = canPlaceShip(enemyBoard, length, startRow,
                                                        startCol, isHorizontal)]
  /\ UNCHANGED <<gameVars, dragState, aiTimers, calls, sunkReports, everHit,
                 used>>
  /\ UNCHANGED overlay

NextPlace ==
  \/ CallPlaceAllShipsRandomly
  \/ \E i \in 1 .. Len(SHIP_DEFS), startRow \in ArgCoords, startCol \in ArgCoords,
        isHorizontal \in BOOLEAN :
       CallCanPlaceShip(SHIP_DEFS[i], startRow, startCol, isHorizontal)

SpecPlace == InitPlace /\ [][NextPlace]_vars

\* C5 (as claimed): canPlaceShip returns true exactly when every one of the
\* length cells from (row, col) along the orientation is inside the board
\* and Empty, and returns false, raising no error, for every other input,
\* a negative row or column included.
C5_CanPlaceTotal ==
  lastCall.fn = "canPlaceShip"
    => lastCall.result =
         (IF \A i \in 0 .. (lastCall.length - 1) :
               LET cell == SegmentCell(lastCall.row, lastCall.col,
                                       lastCall.isHorizontal, i)
               IN cell \in Coords /\ enemyBoard[cell] = EMPTY
          THEN "true" ELSE "false")

\* C6 (as claimed): placeAllShipsRandomly never returns fewer ships than
\* the catalog: the fleet it returns has one ship per catalog entry.
C6_FullFleet ==
  lastCall.fn = "placeAllShipsRandomly"
    => /\ lastCall.ships = Len(SHIP_DEFS)
       /\ Len(enemyShips) = Len(SHIP_DEFS)
       /\ \A i \in 1 .. Len(SHIP_DEFS) :
            enemyShips[i].id = i - 1 /\ enemyShips[i].length = SHIP_DEFS[i]

\* ------------------------------------------------------ Spec: the game
\* Every event handler of the page is an action, taken whole.  The handlers
\* run one at a time in any order the guards in the code allow: a button
\* click, a cell click, a drag event and the opponent's timer are
\* independent events.  The DOM the handlers read (the cell--ship class, the
\* draggable attributes) is rendered from gameState after every change, so
\* it is read from the state.  A drag is in progress exactly while
\* dragState.active, or between a successful drop and its dragend, which
\* does nothing; one drag is in progress at a time.

Init == GameInit /\ ObserverInit

getPlacementOrigin(drag, dropRow, dropCol) ==
  IF drag.isHorizontal
  THEN [row |-> dropRow, col |-> dropCol - drag.grabOffset]
  ELSE [row |-> dropRow - drag.grabOffset, col |-> dropCol]

SetupOp == [used EXCEPT !.setupOps = @ + 1]

\* dragstart on a ship of the bank that is not placed, grabbed at one of
\* its cells.  The bank's ships are draggable only in the setup phase.
BankDragStart(shipId, grabOffset) ==
  /\ used.setupOps < MaxSetupOps
  /\ ~dragState.active
  /\ phase = SETUP
  /\ \A i \in 1 .. Len(playerShips) : playerShips[i].id # shipId
  /\ grabOffset \in 0 .. (SHIP_DEFS[shipId + 1] - 1)
  /\ dragState' = [active |-> TRUE, shipId |-> shipId,
                   shipLength |-> SHIP_DEFS[shipId + 1],
                   grabOffset |-> grabOffset, isHorizontal |-> TRUE,
                   sourceShip |-> <<>>]
  /\ used' = SetupOp
  /\ UNCHANGED <<gameVars, aiTimers, obsVars>>
  /\ UNCHANGED overlay

\* dragstart on a ship cell of the player board: the ship is picked up.
\* What the listener does to the program's state.
pickUpShip(row, col) ==
  /\ used.setupOps < MaxSetupOps
  /\ ~dragState.active
  /\ phase = SETUP
  /\ playerBoard[<<row, col>>] = SHIP
  /\ LET shipIndex == FindShip(playerShips, <<row, col>>)
         ship == playerShips[shipIndex]
         grabOffset == CHOOSE k \in 0 .. (Len(ship.cells) - 1) :
                         /\ ship.cells[k + 1] = <<row, col>>
                         /\ \A j \in 0 .. (k - 1) : ship.cells[j + 1] # <<row, col>>
     IN /\ shipIndex # NoShip
        /\ dragState' = [active |-> TRUE, shipId |-> ship.id,
                         shipLength |-> ship.length, grabOffset |-> grabOffset,
                         isHorizontal |-> ship.isHorizontal,
                         sourceShip |-> <<ship>>]
        /\ playerBoard' = removeShipFromBoard(playerBoard, ship)
        /\ playerShips' = [k \in 1 .. (Len(playerShips) - 1) |->
                             IF k < shipIndex THEN playerShips[k]
                             ELSE playerShips[k + 1]]
  /\ used' = SetupOp
  /\ UNCHANGED <<phase, currentTurn, isGameStarted, enemyBoard, enemyShips,
                 moveLog, aiMemory, aiTimers>>
  /\ UNCHANGED overlay

BoardDragStart(row, col) ==
  /\ pickUpShip(row, col)
  /\ UNCHANGED obsVars

\* handleShipDrop, from the drop event on a cell of the player board.  A
\* refused drop returns false; a TypeError thrown by canPlaceShip ends the
\* handler; both leave the state as it is.
handleShipDrop(dropRow, dropCol) ==
  /\ dragState.active
  /\ LET origin == getPlacementOrigin(dragState, dropRow, dropCol)
         can == canPlaceShip(playerBoard, dragState.shipLength, origin.row,
                             origin.col, dragState.isHorizontal)
         p == placeShip(playerBoard, dragState.shipLength, origin.row,
                        origin.col, dragState.isHorizontal, dragState.shipId)
     IN IF can = "true"
        THEN /\ playerBoard' = p.board
             /\ playerShips' = Append(playerShips, p.ship)
             /\ dragState' = NoDrag
        ELSE UNCHANGED <<playerBoard, playerShips, dragState>>
  /\ UNCHANGED <<phase, currentTurn, isGameStarted, enemyBoard, enemyShips,
                 moveLog, aiMemory, aiTimers, obsVars, used>>
  /\ UNCHANGED overlay

\* The dragend listener with no restore of the ship picked up.
endDragForgetsShip ==
  /\ dragState.active
  /\ dragState' = NoDrag
  /\ UNCHANGED <<playerBoard, playerShips>>
  /\ UNCHANGED <<phase, currentTurn, isGameStarted, enemyBoard, enemyShips,
                 moveLog, aiMemory, aiTimers, used>>
  /\ UNCHANGED overlay

\* The dragend listener, for a drag that is still active: a ship picked up
\* from the board is put back where the snapshot says.  What the listener
\* does to the program's state.
endDrag ==
  /\ dragState.active
  /\ IF dragState.sourceShip # <<>>
     THEN LET s == dragState.sourceShip[1]
              p == placeShip(playerBoard, s.length, s.cells[1][1], s.cells[1][2],
                             s.isHorizontal, s.id)
          IN /\ playerBoard' = p.board
             /\ playerShips' = Append(playerShips, p.ship)
     ELSE UNCHANGED <<playerBoard, playerShips>>
  /\ dragState' = NoDrag
  /\ UNCHANGED <<phase, currentTurn, isGameStarted, enemyBoard, enemyShips,
                 moveLog, aiMemory, aiTimers, used>>
  /\ UNCHANGED overlay

DragEnd ==
  /\ endDrag
  /\ UNCHANGED obsVars

\* handleRotateShip: the board and the fleet it leaves.  When canPlaceShip
\* throws, the handler ends after removeShipFromBoard.
handleRotateShip(board, ships, shipIndex) ==
  LET ship == ships[shipIndex]
      startRow == ship.cells[1][1]
      startCol == ship.cells[1][2]
      newHorizontal == ~ship.isHorizontal
      removed == removeShipFromBoard(board, ship)
      can == canPlaceShip(removed, ship.length, startRow, startCol, newHorizontal)
      rotated == placeShip(removed, ship.length, startRow, startCol,
                           newHorizontal, ship.id)
      restored == placeShip(removed, ship.length, startRow, startCol,
                            ship.isHorizontal, ship.id)
  IN IF can = "true"
     THEN [board |-> rotated.board, ships |-> [ships EXCEPT ![shipIndex] = rotated.ship]]
     ELSE IF can = "false"
     THEN [board |-> restored.board, ships |-> [ships EXCEPT ![shipIndex] = restored.ship]]
     ELSE [board |-> removed, ships |-> ships]

\* handlePlayerBoardClick on a cell of a placed ship.
handlePlayerBoardClick(row, col) ==
  /\ used.setupOps < MaxSetupOps
  /\ phase = SETUP
  /\ FindShip(playerShips, <<row, col>>) # NoShip
  /\ LET r == handleRotateShip(playerBoard, playerShips,
                               FindShip(playerShips, <<row, col>>))
     IN /\ playerBoard' = r.board
        /\ playerShips' = r.ships
  /\ used' = SetupOp
  /\ UNCHANGED <<phase, currentTurn, isGameStarted, enemyBoard, enemyShips,
                 moveLog, aiMemory, dragState, aiTimers, obsVars>>
  /\ UNCHANGED overlay

\* handleRandomize, the random samples giving one of the fleets.
handleRandomizeFrom(fleets) ==
  /\ used.setupOps < MaxSetupOps
  /\ phase = SETUP
  /\ \E placed \in fleets :
       /\ playerBoard' = placed.board
       /\ playerShips' = placed.ships
  /\ used' = SetupOp
  /\ UNCHANGED <<phase, currentTurn, isGameStarted, enemyBoard, enemyShips,
                 moveLog, aiMemory, dragState, aiTimers, obsVars>>
  /\ UNCHANGED overlay

handleRandomize == handleRandomizeFrom(RandomFleets)

\* handleStartGame without its phase test.
handleStartGameAnyPhase(fleets) ==
  /\ ~(Len(playerShips) < Len(SHIP_DEFS))
  /\ \E placed \in fleets :
       /\ enemyBoard' = placed.board
       /\ enemyShips' = placed.ships
  /\ phase' = PLAYING
  /\ isGameStarted' = TRUE
  /\ currentTurn' = "player"
  /\ moveLog' = moveLog + 1
  /\ UNCHANGED <<playerBoard, playerShips, aiMemory, dragState, aiTimers,
                 obsVars, used, overlay>>

\* handleStartGame, the random samples giving one of the fleets.
handleStartGameFrom(fleets) ==
  /\ phase = SETUP
  /\ ~(Len(playerShips) < Len(SHIP_DEFS))
  /\ \E placed \in fleets :
       /\ enemyBoard' = placed.board
       /\ enemyShips' = placed.ships
  /\ phase' = PLAYING
  /\ isGameStarted' = TRUE
  /\ currentTurn' = "player"
  /\ moveLog' = moveLog + 1
  /\ UNCHANGED <<playerBoard, playerShips, aiMemory, dragState, aiTimers,
                 obsVars, used>>
  /\ UNCHANGED overlay

handleStartGame == handleStartGameFrom(RandomFleets)

\* handleRestart with a createGameState that builds no aiMemory: the
\* memory of the replaced game stays.
handleRestartKeepsAiMemory ==
  /\ used.restarts < MaxRestarts
  /\ phase' = SETUP
  /\ currentTurn' = "player"
  /\ isGameStarted' = FALSE
  /\ playerBoard' = createEmptyBoard(BOARD_SIZE)
  /\ enemyBoard' = createEmptyBoard(BOARD_SIZE)
  /\ playerShips' = <<>>
  /\ enemyShips' = <<>>
  /\ moveLog' = 0
  /\ overlay' = "hidden"
  /\ used' = [NoneUsed EXCEPT !.restarts = used.restarts + 1]
  /\ UNCHANGED <<aiMemory, dragState, aiTimers, obsVars>>

\* handleRestart: resetGameState replaces gameState; dragState and the
\* pending timers are not part of it.
handleRestart ==
  /\ used.restarts < MaxRestarts
  /\ phase' = SETUP
  /\ currentTurn' = "player"
  /\ isGameStarted' = FALSE
  /\ playerBoard' = createEmptyBoard(BOARD_SIZE)
  /\ enemyBoard' = createEmptyBoard(BOARD_SIZE)
  /\ playerShips' = <<>>
  /\ enemyShips' = <<>>
  /\ moveLog' = 0
  /\ aiMemory' = InitialAiMemory
  /\ overlay' = "hidden"
  /\ used' = [NoneUsed EXCEPT !.restarts = used.restarts + 1]
  /\ UNCHANGED <<dragState, aiTimers, obsVars>>

\* handleEnemyBoardClick past its guards: the attack is resolved and, with
\* the aiTurn call at the end, the turn passes and a timer is set.
playerAttackResolves(row, col) ==
  /\ LET res == resolveAttack(enemyBoard, enemyShips, row, col)
     IN /\ enemyBoard' = res.board
        /\ enemyShips' = res.ships
        /\ IF checkAllSunk(res.ships)
           THEN /\ phase' = GAME_OVER
                /\ moveLog' = moveLog + 2
                /\ overlay' = "win"
                /\ UNCHANGED <<currentTurn, aiTimers>>
           ELSE /\ moveLog' = moveLog + 1
                /\ currentTurn' = "ai"
                /\ aiTimers' = Append(aiTimers, used.restarts)
                /\ UNCHANGED <<phase, overlay>>
  /\ used' = [used EXCEPT !.attacks = @ + 1]
  /\ UNCHANGED <<isGameStarted, playerBoard, playerShips, aiMemory, dragState,
                 obsVars>>

\* handleEnemyBoardClick without its test of the clicked cell's state.
handleEnemyBoardClickOnAttackedCell(row, col) ==
  /\ isGameStarted
  /\ phase = PLAYING
  /\ currentTurn = "player"
  /\ playerAttackResolves(row, col)

\* handleEnemyBoardClick without its turn test.
handleEnemyBoardClickInAnyTurn(row, col) ==
  /\ isGameStarted
  /\ phase = PLAYING
  /\ enemyBoard[<<row, col>>] # HIT /\ enemyBoard[<<row, col>>] # MISS
  /\ playerAttackResolves(row, col)

\* handleEnemyBoardClick for a click that passes its four guards.
handleEnemyBoardClick(row, col) ==
  /\ isGameStarted
  /\ phase = PLAYING
  /\ currentTurn = "player"
  /\ enemyBoard[<<row, col>>] # HIT /\ enemyBoard[<<row, col>>] # MISS
  /\ playerAttackResolves(row, col)

\* A click on the opponent grid while the game has had fewer than
\* MaxAttacks accepted ones.
BoundedEnemyBoardClick(row, col) ==
  /\ used.attacks < MaxAttacks
  /\ handleEnemyBoardClick(row, col)

\* The callback aiTurn hands to setTimeout, past its phase test: the
\* opponent chooses a cell and the attack on it is resolved.
aiTurnResolves ==
  \E choice \in chooseAiMove(playerBoard, aiMemory) :
    IF choice.target = NoTarget
    THEN /\ aiMemory' = choice.mem
         /\ UNCHANGED <<phase, currentTurn, isGameStarted, playerBoard,
                        enemyBoard, playerShips, enemyShips, moveLog,
                        overlay, used>>
    ELSE LET row == choice.target[1]
             col == choice.target[2]
             res == resolveAttack(playerBoard, playerShips, row, col)
         IN /\ playerBoard' = res.board
            /\ playerShips' = res.ships
            /\ aiMemory' = updateAiTargetingState(res.board, choice.mem, row,
                                                  col, res.result, res.sunkShip)
            /\ IF checkAllSunk(res.ships)
               THEN /\ phase' = GAME_OVER
                    /\ moveLog' = moveLog + 2
                    /\ overlay' = "lose"
                    /\ UNCHANGED currentTurn
               ELSE /\ currentTurn' = "player"
                    /\ moveLog' = moveLog + 1
                    /\ UNCHANGED <<phase, overlay>>
            /\ used' = [used EXCEPT !.aiAttacks = @ + 1,
                                    !.aiCells = @ \cup {choice.target}]
            /\ UNCHANGED <<isGameStarted, enemyBoard, enemyShips>>

\* The callback without its phase test.
AiTimerFiresInAnyPhase ==
  /\ aiTimers # <<>>
  /\ aiTimers' = Tail(aiTimers)
  /\ aiTurnResolves
  /\ UNCHANGED <<dragState, obsVars>>

\* The callback aiTurn hands to setTimeout, when the oldest timer fires.
AiTimerFires ==
  /\ aiTimers # <<>>
  /\ aiTimers' = Tail(aiTimers)
  /\ IF phase # PLAYING
     THEN UNCHANGED <<gameVars, overlay, used>>
     ELSE aiTurnResolves
  /\ UNCHANGED <<dragState, obsVars>>

\* Every handler, in every order.  SpecSetup and SpecStart below keep the
\* handlers of the setup phase, whose state spaces are searched whole.
Next ==
  \/ \E shipId \in 0 .. (Len(SHIP_DEFS) - 1), grabOffset \in 0 .. (MaxLength - 1) :
       BankDragStart(shipId, grabOffset)
  \/ \E row \in Rows, col \in Rows : BoardDragStart(row, col)
  \/ \E row \in Rows, col \in Rows : handleShipDrop(row, col)
  \/ DragEnd
  \/ \E row \in Rows, col \in Rows : handlePlayerBoardClick(row, col)
  \/ handleRandomize
  \/ handleStartGame
  \/ handleRestart
  \/ \E row \in Rows, col \in Rows : BoundedEnemyBoardClick(row, col)
  \/ AiTimerFires

Spec == Init /\ [][Next]_vars

\* ------------------------------------------- SpecSetup: fleet placement
\* The setup phase of a game and of the game that replaces it: the
\* placement handlers, Randomize and Restart, in every order.

NextSetup ==
  \/ \E shipId \in 0 .. (Len(SHIP_DEFS) - 1), grabOffset \in 0 .. (MaxLength - 1) :
       BankDragStart(shipId, grabOffset)
  \/ \E row \in Rows, col \in Rows : BoardDragStart(row, col)
  \/ \E row \in Rows, col \in Rows : handleShipDrop(row, col)
  \/ DragEnd
  \/ \E row \in Rows, col \in Rows : handlePlayerBoardClick(row, col)
  \/ handleRandomize
  \/ handleRestart

SpecSetup == Init /\ [][NextSetup]_vars

\* Both grids and fleets, by side.
Sides ==
  <<[board |-> playerBoard, ships |-> playerShips],
    [board |-> enemyBoard, ships |-> enemyShips]>>

\* C7 (as claimed): in every reachable state the cell sets of any two
\* distinct ships of one fleet are disjoint.
C7_NoOverlap ==
  \A side \in 1 .. 2 :
    \A i, j \in 1 .. Len(Sides[side].ships) :
      i # j => CellSet(Sides[side].ships[i]) \cap CellSet(Sides[side].ships[j]) = {}

\* C9 (as claimed): in every reachable state, for each side, the cells of
\* the grid that are ShipPresent or Hit are exactly the cells of the ships
\* of that side's fleet.
C9_GridFleetConsistent ==
  \A side \in 1 .. 2 :
    {x \in Coords : Sides[side].board[x] \in {SHIP, HIT}}
      = UNION {CellSet(Sides[side].ships[i]) : i \in 1 .. Len(Sides[side].ships)}

\* ------------------------------------------ SpecStart: up to the start
\* One game from its construction to its start: the placement handlers,
\* Randomize and Start, in every order, with the drag events that may
\* still arrive after the start.

NextStart ==
  \/ \E shipId \in 0 .. (Len(SHIP_DEFS) - 1), grabOffset \in 0 .. (MaxLength - 1) :
       BankDragStart(shipId, grabOffset)
  \/ \E row \in Rows, col \in Rows : BoardDragStart(row, col)
  \/ \E row \in Rows, col \in Rows : handleShipDrop(row, col)
  \/ DragEnd
  \/ \E row \in Rows, col \in Rows : handlePlayerBoardClick(row, col)
  \/ handleRandomize
  \/ handleStartGame

SpecStart == Init /\ [][NextStart]_vars

\* C8: in every reachable state every ship of either fleet has exactly
\* length cells, each inside the board, consecutive along the ship's
\* orientation from its first cell.
C8_InBounds ==
  \A side \in 1 .. 2 :
    \A i \in 1 .. Len(Sides[side].ships) :
      LET ship == Sides[side].ships[i]
      IN /\ Len(ship.cells) = ship.length
         /\ \A k \in 1 .. Len(ship.cells) :
              /\ ship.cells[k][1] >= 0 /\ ship.cells[k][1] < BOARD_SIZE
              /\ ship.cells[k][2] >= 0 /\ ship.cells[k][2] < BOARD_SIZE
              /\ ship.cells[k] = (IF ship.isHorizontal
                                  THEN <<ship.cells[1][1], ship.cells[1][2] + (k - 1)>>
                                  ELSE <<ship.cells[1][1] + (k - 1), ship.cells[1][2]>>)

\* C8's case: a started game whose player fleet was placed by drops (the
\* shorter ship first, the longer one grabbed by its last cell and set
\* down along the top row or the left column) and whose opponent fleet
\* was placed at random.
C8_Witness ==
  /\ phase = PLAYING
  /\ Len(enemyShips) = Len(SHIP_DEFS)
  /\ Len(playerShips) = Len(SHIP_DEFS)
  /\ playerShips[1].id = 1
  /\ playerShips[2].id = 0
  /\ playerShips[2].cells[1] = <<0, 0>>

\* C10 (as claimed): the phase goes from Setup to Playing only with a
\* player fleet of exactly the catalog's size, and then the opponent fleet
\* is one placeAllShipsRandomly generates and the turn is the player's.
C10_StartNeedsFullFleet ==
  [][(phase = SETUP /\ phase' = PLAYING)
     => /\ Len(playerShips) = Len(SHIP_DEFS)
        /\ currentTurn' = "player"
        /\ [board |-> enemyBoard', ships |-> enemyShips'] \in RandomFleets]_vars

\* C11 (as claimed): in every state whose phase is Playing or GameOver each
\* side's fleet is exactly the catalog: one ship per catalog entry, of that
\* entry's length, and no other ship.
C11_FleetsAreCatalog ==
  phase \in {PLAYING, GAME_OVER}
    => \A side \in 1 .. 2 :
         /\ Len(Sides[side].ships) = Len(SHIP_DEFS)
         /\ \A id \in 0 .. (Len(SHIP_DEFS) - 1) :
              \E i \in 1 .. Len(Sides[side].ships) :
                /\ Sides[side].ships[i].id = id
                /\ Sides[side].ships[i].length = SHIP_DEFS[id + 1]

\* ------------------------------------------------ SpecGame: whole games
\* Games and the games that replace them: Randomize, Start, the clicks on
\* the opponent grid, the opponent's timer and Restart, in every order.
\* The random samples of handleRandomize and handleStartGame are those that
\* put each ship they place along the row of its id from column 0: the
\* full fleet, and the two fleets that miss a ship.

GameFleets ==
  {f \in RandomFleets :
     /\ f.ships # <<>>
     /\ \A i \in 1 .. Len(f.ships) :
          /\ f.ships[i].isHorizontal
          /\ f.ships[i].cells[1] = <<f.ships[i].id, 0>>}

NextGame ==
  \/ handleRandomizeFrom(GameFleets)
  \/ handleStartGameFrom(GameFleets)
  \/ handleRestart
  \/ \E row \in Rows, col \in Rows : BoundedEnemyBoardClick(row, col)
  \/ AiTimerFires

SpecGame == Init /\ [][NextGame]_vars

\* ----------------------------------------- SpecPlay: one game to its end
\* A game from the state handleStartGame leaves to its end: every click on
\* the opponent grid and every firing of the opponent's timer, with the
\* drop and the dragend of a drag that was started during setup and is
\* still in progress.  Both fleets are the full fleet of GameFleets, as
\* Randomize and Start placed them.

FullGameFleets == {f \in GameFleets : Len(f.ships) = Len(SHIP_DEFS)}

\* What the game can start with besides its gameState: nothing; or a drag
\* in progress, the last ship of the fleet having been picked up from the
\* board by its first cell before the Randomize that placed the fleet
\* again; or the opponent's timer of the game before, restarted while the
\* opponent was thinking.
CarriedOver(fleet) ==
  LET last == fleet.ships[Len(fleet.ships)]
  IN {[drag |-> NoDrag, timers |-> <<>>, restarts |-> 0, setupOps |-> 1],
      [drag |-> [active |-> TRUE, shipId |-> last.id,
                 shipLength |-> last.length, grabOffset |-> 0,
                 isHorizontal |-> last.isHorizontal, sourceShip |-> <<last>>],
       timers |-> <<>>, restarts |-> 0, setupOps |-> 3],
      [drag |-> NoDrag, timers |-> <<0>>, restarts |-> 1, setupOps |-> 1]}

InitPlay ==
  /\ phase = PLAYING
  /\ currentTurn = "player"
  /\ isGameStarted = TRUE
  /\ moveLog = 1
  /\ aiMemory = InitialAiMemory
  /\ overlay = "hidden"
  /\ \E mine \in FullGameFleets, theirs \in FullGameFleets :
       /\ playerBoard = mine.board
       /\ playerShips = mine.ships
       /\ enemyBoard = theirs.board
       /\ enemyShips = theirs.ships
       /\ \E carried \in CarriedOver(mine) :
            /\ dragState = carried.drag
            /\ aiTimers = carried.timers
            /\ used = [NoneUsed EXCEPT !.restarts = carried.restarts,
                                       !.setupOps = carried.setupOps]
  /\ lastCall = NoCall
  /\ calls = 0
  /\ sunkReports = [i \in 1 .. Len(SHIP_DEFS) |-> 0]
  /\ everHit = {}

NextPlay ==
  \/ \E row \in Rows, col \in Rows : handleEnemyBoardClick(row, col)
  \/ AiTimerFires
  \/ \E row \in Rows, col \in Rows : handleShipDrop(row, col)
  \/ DragEnd

SpecPlay == InitPlay /\ [][NextPlay]_vars

\* C13 (as claimed): once the phase is GameOver no step other than a
\* Restart changes the grids, the fleets, the turn, the AI memory or the
\* phase.
C13_GameOverTerminal ==
  [][(phase = GAME_OVER /\ used'.restarts = used.restarts)
     => UNCHANGED <<playerBoard, enemyBoard, playerShips, enemyShips,
                    currentTurn, aiMemory, phase>>]_vars

\* C14: the game ends at the attack that destroys a fleet, a fleet being
\* destroyed when checkAllSunk is true of it.  A player attack that leaves
\* the opponent fleet destroyed sets the phase to GameOver in the same
\* step, schedules no timer and resolves no opponent attack; an opponent
\* attack that leaves the player fleet destroyed sets the phase to GameOver
\* and does not hand the turn over; once the phase is GameOver no attack
\* of either side is resolved and no timer is scheduled; and in every
\* state with phase Playing neither fleet is destroyed.
C14_EndsAtDestroyingAttack ==
  [][/\ (used'.attacks = used.attacks + 1 /\ checkAllSunk(enemyShips'))
        => /\ phase' = GAME_OVER
           /\ aiTimers' = aiTimers
           /\ currentTurn' = currentTurn
           /\ used'.aiAttacks = used.aiAttacks
     /\ (used'.aiAttacks = used.aiAttacks + 1 /\ checkAllSunk(playerShips'))
        => /\ phase' = GAME_OVER
           /\ currentTurn' = currentTurn
     /\ (phase = GAME_OVER /\ used'.restarts = used.restarts)
        => /\ used'.attacks = used.attacks
           /\ used'.aiAttacks = used.aiAttacks
           /\ Len(aiTimers') <= Len(aiTimers)
     /\ phase = PLAYING
        => ~checkAllSunk(playerShips) /\ ~checkAllSunk(enemyShips)
     /\ phase' = PLAYING
        => ~checkAllSunk(playerShips') /\ ~checkAllSunk(enemyShips')]_vars

\* C14's case: the player's attack has sunk the last opponent ship while a
\* timer of the opponent was pending, and the timer has since fired.
C14_Witness ==
  /\ phase = GAME_OVER
  /\ checkAllSunk(enemyShips)
  /\ used.attacks > used.aiAttacks
  /\ used.restarts > 0
  /\ aiTimers = <<>>

\* C15 (as claimed): in every state with phase GameOver exactly one of the
\* two fleets is destroyed (checkAllSunk is true of it), and the overlay
\* declares the player the winner exactly when it is the opponent fleet,
\* the opponent exactly when it is the player fleet.
C15_OneFleetDestroyed ==
  phase = GAME_OVER
    => /\ checkAllSunk(enemyShips) # checkAllSunk(playerShips)
       /\ (overlay = "win") = checkAllSunk(enemyShips)
       /\ (overlay = "lose") = checkAllSunk(playerShips)

\* C16 (as claimed): within a game the attacks alternate, the player
\* first: a player attack is accepted only when every earlier one of the
\* game has been answered, and an opponent attack is resolved only when
\* exactly one player attack of the game is unanswered.
C16_AttacksAlternate ==
  [][/\ used'.attacks = used.attacks + 1 => used.aiAttacks = used.attacks
     /\ used'.aiAttacks = used.aiAttacks + 1 => used.attacks = used.aiAttacks + 1]_vars

\* C17: a click on the opponent grid changes the state only when the
\* game has started, the phase is Playing, the turn is the player's and the
\* cell is neither Hit nor Miss: every step of a started game that changes
\* the opponent grid or fleet is such a click, changes that one cell, and
\* unless it ends the game gives the turn to the opponent; and the player
\* has no attack accepted while an earlier one of the game is unanswered.
C17_ClickGuards ==
  [][/\ used'.attacks = used.attacks + 1
        => /\ isGameStarted
           /\ phase = PLAYING
           /\ currentTurn = "player"
           /\ \E cell \in Coords :
                /\ enemyBoard[cell] \in {EMPTY, SHIP}
                /\ enemyBoard'[cell] \in {HIT, MISS}
                /\ \A x \in Coords \ {cell} : enemyBoard'[x] = enemyBoard[x]
           /\ used.aiAttacks >= used.attacks
           /\ phase' = PLAYING => currentTurn' = "ai"
           /\ UNCHANGED <<playerBoard, playerShips, aiMemory, isGameStarted>>
     /\ (/\ used'.restarts = used.restarts
         /\ phase # SETUP
         /\ <<enemyBoard', enemyShips'>> # <<enemyBoard, enemyShips>>)
        => used'.attacks = used.attacks + 1]_vars

\* C17's case: a second click has been accepted, the opponent having
\* answered the first, and the opponent is thinking.
C17_Witness ==
  /\ phase = PLAYING
  /\ currentTurn = "ai"
  /\ used.attacks = 2
  /\ used.aiAttacks = 1

\* C18 (as claimed): at most one timer of the opponent is pending in
\* every reachable state.
C18_OneTimerPending == Len(aiTimers) <= 1

\* C19 (as claimed): a timer set in a game that has since been replaced
\* changes nothing when it fires: not the player grid or fleet, the AI
\* memory, the turn or the phase of the game that replaced it.
C19_NoStaleOpponentMove ==
  [][(/\ aiTimers # <<>>
      /\ aiTimers' = Tail(aiTimers)
      /\ Head(aiTimers) # used.restarts)
     => UNCHANGED <<playerBoard, playerShips, aiMemory, currentTurn, phase>>]_vars

\* C20: every attack of the opponent is resolved on a cell inside the grid
\* that no earlier attack of the opponent in the same game was resolved on.
C20_AiLegal ==
  [][used'.aiAttacks = used.aiAttacks + 1
       => \E cell \in Coords :
            /\ cell \notin used.aiCells
            /\ used'.aiCells = used.aiCells \cup {cell}]_vars

\* A step in which an attack of the opponent is resolved.
OpponentAttackStep == used'.aiAttacks = used.aiAttacks + 1

\* A step in which an attack of the opponent sinks a player ship.
OpponentSinksStep ==
  /\ OpponentAttackStep
  /\ \E i \in 1 .. Len(playerShips) : ~playerShips[i].sunk /\ playerShips'[i].sunk

\* C21: right after an attack of the opponent that sinks a player ship, the
\* AI mode is hunt and its candidate queue and confirmed hits are empty,
\* whatever they held before.
C21_MemoryResetOnSunk ==
  [][OpponentSinksStep
       => /\ aiMemory'.mode = "hunt"
          /\ aiMemory'.candidateTargets = <<>>
          /\ aiMemory'.confirmedHits = <<>>]_vars

\* C21 happens: an attack of the opponent has just sunk a player ship (the
\* only way the last move is cleared after an attack) in a game that goes
\* on, and an unattacked cell next to the sunk ship is not in the queue.
C21_Witness ==
  /\ phase = PLAYING
  /\ used.aiAttacks >= 2
  /\ aiMemory.lastMove = NoMove
  /\ aiMemory.mode = "hunt"
  /\ aiMemory.candidateTargets = <<>>
  /\ \E i \in 1 .. Len(playerShips) : playerShips[i].sunk
  /\ \E cell \in Coords : playerBoard[cell] \in {EMPTY, SHIP}

C23_InvalidDropRejected ==
  dragState.active
    => \A dropRow \in Rows, dropCol \in Rows :
         LET origin == getPlacementOrigin(dragState, dropRow, dropCol)
             can == canPlaceShip(playerBoard, dragState.shipLength, origin.row,
                                 origin.col, dragState.isHorizontal)
         IN can # "true" => can = "false"

\* C24: while the game instance is not replaced, over Randomize, Start
\* Game, the player's clicks and the firing of the opponent's timers, a
\* cell of either grid that is hit stays hit and one that is miss stays
\* miss.
C24_AttackedCellsStay ==
  [][used'.restarts = used.restarts
       => \A cell \in Coords :
            /\ playerBoard[cell] \in {HIT, MISS} => playerBoard'[cell] = playerBoard[cell]
            /\ enemyBoard[cell] \in {HIT, MISS} => enemyBoard'[cell] = enemyBoard[cell]]_vars

\* C24 happens: both grids hold attacked cells, a hit and a miss on the
\* opponent grid, and attacks were resolved after the first of them.
C24_Witness ==
  /\ phase = PLAYING
  /\ used.attacks = 2
  /\ used.aiAttacks = 2
  /\ \E hitCell \in Coords, missCell \in Coords :
       enemyBoard[hitCell] = HIT /\ enemyBoard[missCell] = MISS
  /\ Cardinality({cell \in Coords : playerBoard[cell] \in {HIT, MISS}}) = 2

\* C12: within one game instance the phase only moves forward, Setup to
\* Playing to GameOver, one step at a time; the only step that returns to
\* Setup is the Restart, which replaces the whole game state with the
\* freshly constructed one.
C12_PhaseForward ==
  [][/\ used'.restarts = used.restarts
        => <<phase, phase'>> \in {<<SETUP, SETUP>>, <<SETUP, PLAYING>>,
                                  <<PLAYING, PLAYING>>, <<PLAYING, GAME_OVER>>,
                                  <<GAME_OVER, GAME_OVER>>}
     /\ used'.restarts # used.restarts
        => /\ phase' = SETUP
           /\ currentTurn' = "player"
           /\ ~isGameStarted'
           /\ playerBoard' = createEmptyBoard(BOARD_SIZE)
           /\ enemyBoard' = createEmptyBoard(BOARD_SIZE)
           /\ playerShips' = <<>>
           /\ enemyShips' = <<>>
           /\ moveLog' = 0
           /\ aiMemory' = InitialAiMemory]_vars

\* C12's case: a game that replaced one restarted while an opponent move
\* was pending has itself gone from Setup through Playing to GameOver.
C12_Witness ==
  /\ used.restarts > 0
  /\ phase = GAME_OVER
  /\ aiTimers # <<>>

\* ------------------------------------- SpecAi: the opponent's targeting
\* A game from the state handleStartGame leaves to its end, against every
\* full player fleet placeAllShipsRandomly can build (ships horizontal and
\* vertical, apart and side by side).  The opponent fleet is one fleet of
\* placeAllShipsRandomly and the player clicks the cells of the opponent
\* grid in reading order, so that the game lasts as long as a game can and
\* the opponent moves as often as it can.

FullFleets == {f \in RandomFleets : Len(f.ships) = Len(SHIP_DEFS)}

\* The opponent fleet on the last cells of the grid in reading order.
LastCellsFleet ==
  LET first == placeShip(createEmptyBoard(BOARD_SIZE), SHIP_DEFS[1],
                         BOARD_SIZE - 1, 0, TRUE, 0)
      second == placeShip(first.board, SHIP_DEFS[2],
                          BOARD_SIZE - 2, BOARD_SIZE - SHIP_DEFS[2], TRUE, 1)
  IN [board |-> second.board, ships |-> <<first.ship, second.ship>>]

InitAi ==
  /\ phase = PLAYING
  /\ currentTurn = "player"
  /\ isGameStarted = TRUE
  /\ moveLog = 1
  /\ aiMemory = InitialAiMemory
  /\ overlay = "hidden"
  /\ \E mine \in FullFleets :
       /\ playerBoard = mine.board
       /\ playerShips = mine.ships
  /\ LastCellsFleet \in RandomFleets
  /\ enemyBoard = LastCellsFleet.board
  /\ enemyShips = LastCellsFleet.ships
  /\ dragState = NoDrag
  /\ aiTimers = <<>>
  /\ used = [NoneUsed EXCEPT !.setupOps = 1]
  /\ lastCall = NoCall
  /\ calls = 0
  /\ sunkReports = [i \in 1 .. Len(SHIP_DEFS) |-> 0]
  /\ everHit = {}

\* The place of a cell in reading order.
ReadingOrder(cell) == cell[1] * BOARD_SIZE + cell[2]

\* A click on the first cell of the opponent grid, in reading order, that
\* is not attacked yet.
ClickNextCell ==
  \E row \in Rows, col \in Rows :
    /\ \A other \in Coords :
         ReadingOrder(other) < ReadingOrder(<<row, col>>)
           => enemyBoard[other] \in {HIT, MISS}
    /\ handleEnemyBoardClick(row, col)

NextAi ==
  \/ ClickNextCell
  \/ AiTimerFires

SpecAi == InitAi /\ [][NextAi]_vars

\* The cell the opponent's attack of this step is resolved on.
AttackedCell == CHOOSE cell \in Coords : playerBoard'[cell] # playerBoard[cell]

\* The AI memory as chooseAiMove leaves it in this step, before the attack
\* is resolved.
MemoryAfterChoice ==
  (CHOOSE c \in chooseAiMove(playerBoard, aiMemory) : c.target = AttackedCell).mem

\* The cells above, below, left and right of a cell, in that order.
Neighbours(cell) ==
  <<<<cell[1] - 1, cell[2]>>, <<cell[1] + 1, cell[2]>>,
    <<cell[1], cell[2] - 1>>, <<cell[1], cell[2] + 1>>>>

\* The cells of a sequence.
Range(seq) == {seq[k] : k \in 1 .. Len(seq)}

\* C25: after an attack of the opponent that hits a ship without sinking
\* one, the mode is target, the hit cell is appended to the confirmed hits,
\* and the queue is the queue chooseAiMove left followed by the neighbours
\* (up, down, left, right) of the hit cell that are in bounds, not attacked
\* and not queued already; the queue never holds a cell twice nor a cell
\* outside the grid.
C25_HitUpdatesMemory ==
  [][(/\ OpponentAttackStep
      /\ playerBoard'[AttackedCell] = HIT
      /\ ~OpponentSinksStep)
     => LET previous == MemoryAfterChoice
            fresh(n) == /\ n \in Coords
                        /\ playerBoard'[n] \notin {HIT, MISS}
                        /\ n \notin Range(previous.candidateTargets)
            queue == aiMemory'.candidateTargets
        IN /\ aiMemory'.mode = "target"
           /\ aiMemory'.confirmedHits = Append(previous.confirmedHits, AttackedCell)
           /\ queue = previous.candidateTargets
                        \o SelectSeq(Neighbours(AttackedCell), fresh)
           /\ \A j \in 1 .. Len(queue) :
                /\ queue[j] \in Coords
                /\ \A k \in 1 .. Len(queue) : queue[j] = queue[k] => j = k]_vars

\* C25 happens: the opponent's last attack was its second hit in a row on
\* ships still afloat, and neighbours of both hits are queued.
C25_Witness ==
  /\ phase = PLAYING
  /\ aiMemory.mode = "target"
  /\ aiMemory.lastMove.result = "hit"
  /\ Len(aiMemory.confirmedHits) = 2
  /\ Len(aiMemory.candidateTargets) >= 3

\* The confirmed-hits lists getDirectionalCandidates is tried on in a
\* state: every list of up to MaxHits hit cells of the player grid, in any
\* order, and the list the AI memory holds.
HitLists ==
  LET hitCells == {cell \in Coords : playerBoard[cell] = HIT}
  IN UNION {[1 .. n -> hitCells] : n \in 0 .. MaxHits} \cup {aiMemory.confirmedHits}

Usable(cell) == cell \in Coords /\ playerBoard[cell] \notin {HIT, MISS}

RestoredFleets ==
  {[board |-> f.board, ships |-> Append(f.ships, f.ships[Len(f.ships)])] :
     f \in FullGameFleets}

\* placeAllShipsRandomly having placed no ship at all.
EmptyFleet == [board |-> createEmptyBoard(BOARD_SIZE), ships |-> <<>>]

InitExhaust ==
  /\ phase = PLAYING
  /\ currentTurn = "player"
  /\ isGameStarted = TRUE
  /\ moveLog = 1
  /\ aiMemory = InitialAiMemory
  /\ overlay = "hidden"
  /\ \E mine \in RestoredFleets \cup FullGameFleets :
       /\ playerBoard = mine.board
       /\ playerShips = mine.ships
  /\ EmptyFleet \in RandomFleets
  /\ \E theirs \in {EmptyFleet, LastCellsFleet} :
       /\ enemyBoard = theirs.board
       /\ enemyShips = theirs.ships
  /\ dragState = NoDrag
  /\ \E restarts \in 0 .. 1 :
       /\ aiTimers = [k \in 1 .. restarts |-> 0]
       /\ used = [NoneUsed EXCEPT !.restarts = restarts, !.setupOps = 3]
  /\ lastCall = NoCall
  /\ calls = 0
  /\ sunkReports = [i \in 1 .. Len(SHIP_DEFS) |-> 0]
  /\ everHit = {}

NextExhaust ==
  \/ ClickNextCell
  \/ AiTimerFires

SpecExhaust == InitExhaust /\ [][NextExhaust]_vars

\* C28 (as claimed): in a game being played, whenever a move of the
\* opponent is pending a cell of the player grid is not attacked yet, and
\* the turn is the opponent's only while a move of its is pending.
C28_AlwaysACellLeft ==
  phase = PLAYING
    => /\ aiTimers # <<>> => \E cell \in Coords : Usable(cell)
       /\ currentTurn = "ai" => aiTimers # <<>>

\* C29 (as claimed): the confirmed hits of the AI memory, when there are
\* any, all lie on one player ship, and that ship is not sunk.
C29_HitsOnOneShip ==
  aiMemory.confirmedHits # <<>>
    => \E i \in 1 .. Len(playerShips) :
         /\ ~playerShips[i].sunk
         /\ Range(aiMemory.confirmedHits) \subseteq CellSet(playerShips[i])

\* C30 (as claimed): after every attack of the opponent, lastMove holds the
\* row, the column and the result of that attack, also when it sank a ship.
C30_LastMoveRecorded ==
  [][OpponentAttackStep
       => aiMemory'.lastMove =
            [row |-> AttackedCell[1], col |-> AttackedCell[2],
             result |-> IF playerBoard'[AttackedCell] = HIT THEN "hit" ELSE "miss"]]_vars

\* C31 (as claimed): in a started game a ship of either fleet is flagged
\* sunk iff every cell it occupies is hit on its grid.
C31_SunkIffAllHit ==
  phase \in {PLAYING, GAME_OVER}
    => /\ \A i \in 1 .. Len(playerShips) :
            playerShips[i].sunk
              = (\A cell \in CellSet(playerShips[i]) : playerBoard[cell] = HIT)
       /\ \A i \in 1 .. Len(enemyShips) :
            enemyShips[i].sunk
              = (\A cell \in CellSet(enemyShips[i]) : enemyBoard[cell] = HIT)

\* The cells of a ship of the given length from an anchor cell.
CellsFrom(anchor, length, isHorizontal) ==
  [k \in 1 .. length |->
     IF isHorizontal THEN <<anchor[1], anchor[2] + k - 1>>
     ELSE <<anchor[1] + k - 1, anchor[2]>>]

\* C32: during setup, a click on a placed ship rotates it about its first
\* cell when the other orientation passes canPlaceShip on the grid without
\* the ship, and otherwise leaves the grid and the ship as they were; the
\* ship keeps its first cell, length and id, the fleet its size, every
\* other ship and cell stays, and a second successful rotation gives the
\* first placement back.
C32_RotationFrame ==
  phase = SETUP
    => \A clicked \in Coords :
         LET i == FindShip(playerShips, clicked)
             ship == playerShips[i]
             after == handleRotateShip(playerBoard, playerShips, i)
             without == [cell \in Coords |->
                           IF cell \in CellSet(ship) THEN EMPTY ELSE playerBoard[cell]]
             turned == CellsFrom(ship.cells[1], ship.length, ~ship.isHorizontal)
             passes == canPlaceShip(without, ship.length, ship.cells[1][1],
                                    ship.cells[1][2], ~ship.isHorizontal) = "true"
             again == handleRotateShip(after.board, after.ships, i)
         IN i # NoShip
              => /\ Len(after.ships) = Len(playerShips)
                 /\ \A j \in 1 .. Len(playerShips) :
                      j # i => after.ships[j] = playerShips[j]
                 /\ after.ships[i].id = ship.id
                 /\ after.ships[i].length = ship.length
                 /\ after.ships[i].cells[1] = ship.cells[1]
                 /\ IF passes
                    THEN /\ after.ships[i].cells = turned
                         /\ after.ships[i].isHorizontal = ~ship.isHorizontal
                         /\ after.board = [cell \in Coords |->
                                             IF cell \in Range(turned) THEN SHIP
                                             ELSE without[cell]]
                         /\ again.ships[i].isHorizontal = ship.isHorizontal
                              => /\ again.ships[i].cells = ship.cells
                                 /\ again.board = playerBoard
                    ELSE /\ after.ships[i].cells = ship.cells
                         /\ after.ships[i].isHorizontal = ship.isHorizontal
                         /\ after.board = playerBoard

\* ------------------------------------- SpecPickup: pick-up and put-back
\* Setup with Randomize, the pick-up of a placed ship, drops (accepted or
\* refused) and the end of the drag, Randomize being pressed only while no
\* drag is in progress.  The pick-up records the grid and the fleet it
\* found in lastCall and the dragend listener marks the record.

RandomizeBetweenDrags ==
  /\ ~dragState.active
  /\ handleRandomize

ObservedPickUp(row, col) ==
  /\ pickUpShip(row, col)
  /\ lastCall' = [fn |-> "dragstart", board |-> playerBoard, ships |-> playerShips]
  /\ UNCHANGED <<calls, sunkReports, everHit>>

ObservedDragEnd ==
  /\ endDrag
  /\ lastCall' = [lastCall EXCEPT !.fn = "dragend"]
  /\ UNCHANGED <<calls, sunkReports, everHit>>

NextPickup ==
  \/ RandomizeBetweenDrags
  \/ \E row \in Rows, col \in Rows : ObservedPickUp(row, col)
  \/ \E row \in Rows, col \in Rows : handleShipDrop(row, col)
  \/ ObservedDragEnd

SpecPickup == Init /\ [][NextPickup]_vars

\* C33: when the drag of a ship picked up from the grid ends without an
\* accepted drop, the grid is cell for cell the grid before the pick-up and
\* the fleet holds the same ships, the one put back being the snapshot taken
\* at the pick-up.
C33_CancelRestores ==
  [][(lastCall.fn = "dragstart" /\ lastCall'.fn = "dragend")
     => /\ playerBoard' = lastCall.board
        /\ Len(playerShips') = Len(lastCall.ships)
        /\ \A i \in 1 .. Len(lastCall.ships) :
             \E j \in 1 .. Len(playerShips') : playerShips'[j] = lastCall.ships[i]
        /\ playerShips'[Len(playerShips')] = dragState.sourceShip[1]]_vars

\* C33 happens: a drag of a ship picked up from a full fleet has ended
\* without an accepted drop, for the second time.
C33_Witness ==
  /\ lastCall.fn = "dragend"
  /\ used.setupOps = 3
  /\ Len(playerShips) = Len(SHIP_DEFS)
  /\ ~dragState.active

\* ------------------------------ SpecRoundTrip: placeShip and its undo
\* placeShip called on the player grid wherever canPlaceShip accepts, with
\* any catalog length, and removeShipFromBoard called on the ship the last
\* placeShip returned.  The grids the calls are made on are the ones earlier
\* calls left: the empty grid and every grid of ships that do not overlap.
\* lastCall keeps the arguments, the grid before placeShip and the ship.

CallPlaceShip(length, startRow, startCol, isHorizontal) ==
  /\ canPlaceShip(playerBoard, length, startRow, startCol, isHorizontal) = "true"
  /\ LET placed == placeShip(playerBoard, length, startRow, startCol,
                             isHorizontal, NoShip)
     IN /\ playerBoard' = placed.board
        /\ lastCall' = [fn |-> "placeShip", length |-> length,
                        row |-> startRow, col |-> startCol,
                        isHorizontal |-> isHorizontal,
                        board |-> playerBoard, ship |-> placed.ship]
  /\ UNCHANGED <<phase, currentTurn, isGameStarted, enemyBoard, playerShips,
                 enemyShips, moveLog, aiMemory, dragState, aiTimers, overlay,
                 calls, sunkReports, everHit, used>>

CallRemoveShipFromBoard ==
  /\ lastCall.fn = "placeShip"
  /\ playerBoard' = removeShipFromBoard(playerBoard, lastCall.ship)
  /\ lastCall' = [lastCall EXCEPT !.fn = "removeShipFromBoard"]
  /\ UNCHANGED <<phase, currentTurn, isGameStarted, enemyBoard, playerShips,
                 enemyShips, moveLog, aiMemory, dragState, aiTimers, overlay,
                 calls, sunkReports, everHit, used>>

NextRoundTrip ==
  \/ \E i \in 1 .. Len(SHIP_DEFS), startRow \in ArgCoords, startCol \in ArgCoords,
        isHorizontal \in BOOLEAN :
       CallPlaceShip(SHIP_DEFS[i], startRow, startCol, isHorizontal)
  \/ CallRemoveShipFromBoard

SpecRoundTrip == Init /\ [][NextRoundTrip]_vars

\* C34: placeShip on an accepted placement marks exactly the length target
\* cells SHIP, leaves every other cell as it was and returns a ship with
\* those cells and sunk = false; removeShipFromBoard on that ship gives
\* back the grid placeShip was called on.
C34_PlaceRemoveRoundTrip ==
  /\ lastCall.fn = "placeShip"
       => LET target == {SegmentCell(lastCall.row, lastCall.col,
                                     lastCall.isHorizontal, i) :
                           i \in 0 .. (lastCall.length - 1)}
          IN /\ Cardinality(target) = lastCall.length
             /\ target \subseteq Coords
             /\ \A x \in Coords :
                  playerBoard[x] = (IF x \in target THEN SHIP ELSE lastCall.board[x])
             /\ \A x \in target : lastCall.board[x] = EMPTY
             /\ Len(lastCall.ship.cells) = lastCall.length
             /\ {lastCall.ship.cells[k] : k \in 1 .. lastCall.length} = target
             /\ lastCall.ship.sunk = FALSE
  /\ lastCall.fn = "removeShipFromBoard"
       => /\ playerBoard = lastCall.board
          /\ \A k \in 1 .. Len(lastCall.ship.cells) :
               playerBoard[lastCall.ship.cells[k]] = EMPTY

\* C34 happens: a ship was placed on a grid that holds other ships and was
\* taken off again.
C34_Witness ==
  /\ lastCall.fn = "removeShipFromBoard"
  /\ lastCall.ship.length = 2
  /\ \E x \in Coords : playerBoard[x] = SHIP

\* C35 (as claimed): while the phase is Playing the player grid and the
\* player fleet change only by an opponent attack: no drop, rotation,
\* pick-up, drag end or Randomize changes them, a drag started in Setup
\* and ended later included.
C35_PlacementOnlyInSetup ==
  [][(phase = PLAYING /\ phase' = PLAYING /\ ~OpponentAttackStep)
     => UNCHANGED <<playerBoard, playerShips>>]_vars

\* ----------------------------------------- the games under fairness
\* A callback passed to setTimeout runs once its delay has passed, so a
\* pending opponent move eventually fires; and the player keeps attacking
\* while it is their turn.  Both are weak fairness: the timer stays pending
\* until it fires, and the click stays possible until it is made.

SpecAiFair == SpecAi /\ WF_vars(ClickNextCell) /\ WF_vars(AiTimerFires)

SpecExhaustFair == SpecExhaust /\ WF_vars(ClickNextCell) /\ WF_vars(AiTimerFires)

\* C36 (as claimed): while the game goes on, the AI in target mode
\* eventually returns to hunt mode, and every opponent turn that starts
\* ends with the turn handed back to the player or with the phase GameOver.
C36_TargetModeNotStuck ==
  /\ (phase = PLAYING /\ aiMemory.mode = "target")
       ~> (aiMemory.mode = "hunt" \/ phase # PLAYING)
  /\ (phase = PLAYING /\ currentTurn = "ai")
       ~> (currentTurn = "player" \/ phase = GAME_OVER)

\* C37 (as claimed): every started game ends: with the player attacking
\* fresh cells on their turn and every scheduled opponent move firing, a
\* game being played eventually reaches GameOver, neither side having made
\* more than BOARD_SIZE * BOARD_SIZE attacks.
C37_GameTerminates ==
  /\ (phase = PLAYING) ~> (phase = GAME_OVER)
  /\ [](/\ used.attacks <= BOARD_SIZE * BOARD_SIZE
        /\ used.aiAttacks <= BOARD_SIZE * BOARD_SIZE)

\* C38 (as claimed): in every reachable state the player fleet holds at
\* most one ship per catalog id, hence at most as many ships as the
\* catalog has entries.
C38_OneShipPerId ==
  /\ \A i, j \in 1 .. Len(playerShips) :
       playerShips[i].id = playerShips[j].id => i = j
  /\ Len(playerShips) <= Len(SHIP_DEFS)

\* C39 (as claimed): whenever the AI mode is hunt, the candidate queue and
\* the confirmed-hits list are both empty.
C39_HuntHasNoTargetingData ==
  aiMemory.mode = "hunt"
    => /\ aiMemory.candidateTargets = <<>>
       /\ aiMemory.confirmedHits = <<>>

=============================================================================
